---- MODULE Spec2Model ----
(***************************************************************************)
(* Fuel-tax-credit rate pipeline of scrape_sel.py: the normalisation of    *)
(* the scraped JSON document (json_to_dataframe, clean_rate,               *)
(* extract_dates, fuel_type_mapping, main) and the reconciliation of the   *)
(* staging workbook update.xlsx into the historical workbook               *)
(* "FTC Rates.xlsx" (update_rates_table).                                  *)
(*                                                                         *)
(* A Python str is a sequence of one-character strings, so that split,     *)
(* the regular expression, strptime, strftime and float act on characters. *)
(* Every cell or scalar is a record of one shape (k, s, y, m, d), k its    *)
(* kind, so that values of different kinds can be compared.                *)
(***************************************************************************)
EXTENDS Integers, Sequences, FiniteSets, TLC

VARIABLES
  update_xlsx,      \* the staging workbook update.xlsx: "missing" marker or its rows
  ftc_xlsx,         \* sheet "rates" of FTC Rates.xlsx: "missing" marker or its rows
  fuel_rates_xlsx,  \* the raw export fuel_rates.xlsx
  last,             \* what the most recent call did (observation of the run)
  proc,             \* concurrent runs of update_rates_table: position and locals
  overlap,          \* some run of main started while another was under way
  ftc_initial       \* the historical sheet before the first run

vars == <<update_xlsx, ftc_xlsx, fuel_rates_xlsx, last, proc, overlap, ftc_initial>>

----------------------------------------------------------------------------
(* Values *)

Val(k, s, y, m, d) == [k |-> k, s |-> s, y |-> y, m |-> m, d |-> d]

\* a Python str
Str(s) == Val("str", s, 0, 0, 0)

\* Python None
NoneV == Val("None", << >>, 0, 0, 0)

\* float('nan'): what read_excel gives for an empty cell
NaN == Val("nan", << >>, 0, 0, 0)

\* pandas.NaT
NaT == Val("NaT", << >>, 0, 0, 0)

\* pandas.Timestamp at midnight of y-m-d
Timestamp(y, m, d) == Val("ts", << >>, y, m, d)

\* a finite float: mant / 10^exp, exp minimal
Float(mant, exp) == Val("float", << >>, mant, exp, 0)

\* float('inf') and float('-inf')
Infinity(negative) == Val("inf", << >>, IF negative THEN 0 - 1 ELSE 1, 0, 0)

\* a key that a mapping does not hold
Absent == Val("absent", << >>, 0, 0, 0)

\* an empty spreadsheet cell
Blank == Val("blank", << >>, 0, 0, 0)

\* an exception raised instead of a value
Raise(e) == Val("raise", <<e>>, 0, 0, 0)

IsRaise(v) == v.k = "raise"

----------------------------------------------------------------------------
(* Characters *)

Digits == <<"0", "1", "2", "3", "4", "5", "6", "7", "8", "9">>

UpperCase == <<"A","B","C","D","E","F","G","H","I","J","K","L","M","N","O","P","Q","R","S","T","U","V","W","X","Y","Z">>

LowerCase == <<"a","b","c","d","e","f","g","h","i","j","k","l","m","n","o","p","q","r","s","t","u","v","w","x","y","z">>

Range(f) == {f[i] : i \in DOMAIN f}

DigitChars == Range(Digits)

\* \w of the re module, on the ASCII characters
WordChars == Range(Digits) \cup Range(UpperCase) \cup Range(LowerCase) \cup {"_"}

IsDigit(c) == c \in DigitChars

IsWord(c) == c \in WordChars

DigitVal(c) == (CHOOSE i \in 1..10 : Digits[i] = c) - 1

DigitChar(n) == Digits[n + 1]

UpperChars == Range(UpperCase)

Lower(c) == IF c \in UpperChars THEN LowerCase[CHOOSE i \in 1..26 : UpperCase[i] = c] ELSE c

LowerStr(s) == [i \in DOMAIN s |-> Lower(s[i])]

AllDigits(s) == \A i \in DOMAIN s : IsDigit(s[i])

RECURSIVE ToInt(_)
ToInt(s) == IF s = << >> THEN 0 ELSE 10 * ToInt(SubSeq(s, 1, Len(s) - 1)) + DigitVal(s[Len(s)])

Pad2(n) == <<DigitChar(n \div 10), DigitChar(n % 10)>>

Pad4(n) == <<DigitChar(n \div 1000), DigitChar((n \div 100) % 10), DigitChar((n \div 10) % 10), DigitChar(n % 10)>>

----------------------------------------------------------------------------
(* clean_rate *)

\* rate.split(' ')[0]: the characters before the first space
FirstToken(s) ==
  IF \E i \in DOMAIN s : s[i] = " "
  THEN SubSeq(s, 1, (CHOOSE i \in DOMAIN s : s[i] = " " /\ \A j \in 1..(i - 1) : s[j] # " ") - 1)
  ELSE s

RECURSIVE StripZeros(_)
StripZeros(s) == IF s # << >> /\ s[Len(s)] = "0" THEN StripZeros(SubSeq(s, 1, Len(s) - 1)) ELSE s

\* the literal without its sign
Unsigned(tok) == IF tok # << >> /\ tok[1] \in {"+", "-"} THEN Tail(tok) ELSE tok

\* the position of the first "." of body, or one past its end
DotAt(body) ==
  IF \E i \in DOMAIN body : body[i] = "."
  THEN CHOOSE i \in DOMAIN body : body[i] = "." /\ \A j \in 1..(i - 1) : body[j] # "."
  ELSE Len(body) + 1

\* the float with integer digits ip and fraction digits fp
PyFloatDigits(negative, ip, fp) ==
  IF ~AllDigits(ip) \/ ~AllDigits(fp) \/ Len(ip) + Len(fp) = 0
  THEN Raise("ValueError")
  ELSE Float(IF negative THEN 0 - ToInt(ip \o StripZeros(fp)) ELSE ToInt(ip \o StripZeros(fp)),
             Len(StripZeros(fp)))

PyFloatAt(negative, body, dot) ==
  PyFloatDigits(negative, SubSeq(body, 1, dot - 1), SubSeq(body, dot + 1, Len(body)))

\* float(tok) for a token without blanks, exponent or underscores: [sign]
\* digits [. digits], or a spelling of nan or of infinity; anything else is a
\* ValueError
PyFloat(tok) ==
  IF LowerStr(Unsigned(tok)) = <<"n","a","n">> THEN NaN
  ELSE IF LowerStr(Unsigned(tok)) \in {<<"i","n","f">>, <<"i","n","f","i","n","i","t","y">>}
  THEN Infinity(tok[1] = "-")
  ELSE PyFloatAt(tok # << >> /\ tok[1] = "-", Unsigned(tok), DotAt(Unsigned(tok)))

clean_rate(rate) ==
  IF rate.k # "str" THEN Raise("AttributeError")
  ELSE PyFloat(FirstToken(rate.s))

----------------------------------------------------------------------------
(* extract_dates *)

MonthNames == <<<<"j","a","n","u","a","r","y">>, <<"f","e","b","r","u","a","r","y">>, <<"m","a","r","c","h">>, <<"a","p","r","i","l">>, <<"m","a","y">>, <<"j","u","n","e">>,
                <<"j","u","l","y">>, <<"a","u","g","u","s","t">>, <<"s","e","p","t","e","m","b","e","r">>, <<"o","c","t","o","b","e","r">>, <<"n","o","v","e","m","b","e","r">>, <<"d","e","c","e","m","b","e","r">>>>

IsLeap(y) == (y % 4 = 0 /\ y % 100 # 0) \/ y % 400 = 0

DaysIn(y, m) ==
  IF m = 2 THEN (IF IsLeap(y) THEN 29 ELSE 28)
  ELSE IF m \in {4, 6, 9, 11} THEN 30 ELSE 31

\* one past the run of \w characters that starts at p
RECURSIVE WordEnd(_, _)
WordEnd(t, p) == IF p <= Len(t) /\ IsWord(t[p]) THEN WordEnd(t, p + 1) ELSE p

NoGroup == [ok |-> FALSE, day |-> << >>, word |-> << >>, year |-> << >>, end |-> 0]

NoMatch == [ok |-> FALSE, g1 |-> NoGroup, g2 |-> NoGroup]

\* \d{1,2} followed by a space at position p: the number of digits, or 0
DayLen(t, p) ==
  IF p + 2 <= Len(t) /\ IsDigit(t[p]) /\ IsDigit(t[p + 1]) /\ t[p + 2] = " " THEN 2
  ELSE IF p + 1 <= Len(t) /\ IsDigit(t[p]) /\ t[p + 1] = " " THEN 1
  ELSE 0

\* " \d{4}" after the word that starts at w and ends before we
DateGroupYear(t, p, w, we) ==
  IF we = w \/ we > Len(t) THEN NoGroup
  ELSE IF t[we] # " " \/ we + 4 > Len(t) THEN NoGroup
  ELSE IF ~AllDigits(SubSeq(t, we + 1, we + 4)) THEN NoGroup
  ELSE [ok |-> TRUE, day |-> SubSeq(t, p, w - 2), word |-> SubSeq(t, w, we - 1),
        year |-> SubSeq(t, we + 1, we + 4), end |-> we + 5]

DateGroupWord(t, p, dl) ==
  IF dl = 0 THEN NoGroup ELSE DateGroupYear(t, p, p + dl + 1, WordEnd(t, p + dl + 1))

\* (\d{1,2} \w+ \d{4}) matched at position p of t; end is one past the match
DateGroup(t, p) == DateGroupWord(t, p, DayLen(t, p))

PatternBoth(g1, g2) == [ok |-> g2.ok, g1 |-> g1, g2 |-> g2]

\* " to " and the second group after the first
PatternSecond(t, g1) ==
  IF g1.ok /\ g1.end + 3 <= Len(t) /\ SubSeq(t, g1.end, g1.end + 3) = <<" ","t","o"," ">>
  THEN PatternBoth(g1, DateGroup(t, g1.end + 4))
  ELSE NoMatch

\* date_pattern matched at position p
PatternAt(t, p) == PatternSecond(t, DateGroup(t, p))

Leftmost(hits) == CHOOSE p \in hits : \A q \in hits : p <= q

MatchAmong(t, hits) == IF hits = {} THEN NoMatch ELSE PatternAt(t, Leftmost(hits))

\* re.search(date_pattern, title): the leftmost match
ReSearch(t) == MatchAmong(t, {p \in 1..Len(t) : PatternAt(t, p).ok})

\* %d of strptime: 1..9, 01..09, 10..31
DayOk(day) ==
  \/ Len(day) = 1 /\ day[1] # "0"
  \/ Len(day) = 2 /\ day # <<"0", "0">> /\ ToInt(day) <= 31

\* %B of strptime, which ignores case: the month's number, or 0
MonthOf(word) ==
  IF \E i \in 1..12 : MonthNames[i] = LowerStr(word)
  THEN CHOOSE i \in 1..12 : MonthNames[i] = LowerStr(word)
  ELSE 0

\* strftime('%m/%d/%Y')
Strftime(yr, mo, dy) == Str(Pad2(mo) \o <<"/">> \o Pad2(dy) \o <<"/">> \o Pad4(yr))

Strptime(day, mo, yr) ==
  IF ~DayOk(day) \/ mo = 0 \/ yr = 0 THEN Raise("ValueError")
  ELSE IF ToInt(day) > DaysIn(yr, mo) THEN Raise("ValueError")
  ELSE Strftime(yr, mo, ToInt(day))

\* datetime.strptime(g, '%d %B %Y').strftime('%m/%d/%Y') for a matched group
Reformat(g) == Strptime(g.day, MonthOf(g.word), ToInt(g.year))

\* the pair of line 54, unless strptime raised on the first or on the second group
DatePair(start_date, end_date) ==
  IF IsRaise(start_date) THEN <<start_date, start_date>>
  ELSE IF IsRaise(end_date) THEN <<end_date, end_date>>
  ELSE <<start_date, end_date>>

DatesOfMatch(match) ==
  IF match.ok THEN DatePair(Reformat(match.g1), Reformat(match.g2)) ELSE <<NoneV, NoneV>>

\* the pair [Start Date, End Date], or the exception strptime raises
extract_dates(title) ==
  IF title.k # "str" THEN <<Raise("TypeError"), Raise("TypeError")>>
  ELSE DatesOfMatch(ReSearch(title.s))

----------------------------------------------------------------------------
(* fuel_type_mapping *)

fuel_type_mapping ==
  << <<<<"L","i","q","u","i","d"," ","f","u","e","l","s"," ","(","f","o","r"," ","e","x","a","m","p","l","e",","," ","d","i","e","s","e","l"," ","o","r"," ","p","e","t","r","o","l",")">>, <<"F","T","1">>>>,
     <<<<"B","l","e","n","d","e","d"," ","f","u","e","l","s",":"," ","B","5",","," ","B","2","0",","," ","E","1","0">>, <<"F","T","2">>>>,
     <<<<"L","i","q","u","e","f","i","e","d"," ","p","e","t","r","o","l","e","u","m"," ","g","a","s"," ","(","L","P","G",")">>, <<"F","T","3">>>>,
     <<<<"L","i","q","u","e","f","i","e","d"," ","n","a","t","u","r","a","l"," ","g","a","s"," ","(","L","N","G",")"," ","o","r"," ","c","o","m","p","r","e","s","s","e","d"," ","n","a","t","u","r","a","l"," ","g","a","s"," ","(","C","N","G",")">>, <<"F","T","4">>>>,
     <<<<"B","l","e","n","d","e","d"," ","f","u","e","l",":"," ","E","8","5">>, <<"F","T","5">>>>,
     <<<<"B","1","0","0">>, <<"F","T","6">>>> >>

\* Series.map(fuel_type_mapping): a value that is no key maps to NaN
MapFuelType(fuel) ==
  IF \E i \in DOMAIN fuel_type_mapping : fuel.k = "str" /\ fuel_type_mapping[i][1] = fuel.s
  THEN Str(fuel_type_mapping[CHOOSE i \in DOMAIN fuel_type_mapping : fuel_type_mapping[i][1] = fuel.s][2])
  ELSE NaN

----------------------------------------------------------------------------
(* json_to_dataframe *)

\* all_rows after the periods from i on, or the exception the loop raises:
\* table['Period'] and table['Data'] raise KeyError on a missing key
RECURSIVE CollectRows(_, _, _)
CollectRows(periods, i, all_rows) ==
  IF i > Len(periods) THEN [raised |-> FALSE, rows |-> all_rows]
  ELSE IF periods[i].Period.k = "absent" \/ ~periods[i].hasData
  THEN [raised |-> TRUE, rows |-> all_rows]
  ELSE CollectRows(periods, i + 1,
         all_rows \o [j \in DOMAIN periods[i].Data |->
                        [Title |-> periods[i].Period,
                         heavy |-> periods[i].Data[j].heavy,
                         other |-> periods[i].Data[j].other,
                         fuel |-> periods[i].Data[j].fuel]])

\* json_to_dataframe without its try/except: the rows collected before the
\* exception are returned as the table
json_to_dataframe_partial(json_data) ==
  [isNone |-> FALSE, rows |-> CollectRows(json_data.periods, 1, << >>).rows]

\* the DataFrame, or None when the key is absent or the traversal raises
json_to_dataframe(json_data) ==
  IF json_data.hasKey
  THEN IF CollectRows(json_data.periods, 1, << >>).raised
       THEN [isNone |-> TRUE, rows |-> << >>]
       ELSE [isNone |-> FALSE, rows |-> CollectRows(json_data.periods, 1, << >>).rows]
  ELSE [isNone |-> TRUE, rows |-> << >>]

----------------------------------------------------------------------------
(* Spreadsheet round trip *)

\* DataFrame.to_excel: missing values become empty cells
ToExcelCell(v) == IF v.k \in {"None", "nan", "NaT", "absent"} THEN Blank ELSE v

ToExcel(df) ==
  [i \in DOMAIN df |->
     [StartDate |-> ToExcelCell(df[i].StartDate), EndDate |-> ToExcelCell(df[i].EndDate),
      FuelType |-> ToExcelCell(df[i].FuelType), RoadType |-> ToExcelCell(df[i].RoadType),
      Unit |-> ToExcelCell(df[i].Unit), Rate |-> ToExcelCell(df[i].Rate),
      Fuel |-> ToExcelCell(df[i].Fuel), Road |-> ToExcelCell(df[i].Road)]]

\* pd.read_excel: an empty cell reads as NaN
ReadExcelCell(c) == IF c.k = "blank" THEN NaN ELSE c

\* the Timestamp of a date in its range, else NaT (errors='coerce')
DateOf(yr, mo, dy) ==
  IF mo \notin 1..12 \/ yr \notin 1678..2261 THEN NaT
  ELSE IF dy \notin 1..DaysIn(yr, mo) THEN NaT
  ELSE Timestamp(yr, mo, dy)

\* the text form 'mm/dd/yyyy' as a Timestamp; NaT when it is no date in range
ParseDate(s) ==
  IF Len(s) # 10 THEN NaT
  ELSE IF s[3] # "/" \/ s[6] # "/" THEN NaT
  ELSE IF ~AllDigits(SubSeq(s, 1, 2) \o SubSeq(s, 4, 5) \o SubSeq(s, 7, 10)) THEN NaT
  ELSE DateOf(ToInt(SubSeq(s, 7, 10)), ToInt(SubSeq(s, 1, 2)), ToInt(SubSeq(s, 4, 5)))

\* pd.to_datetime(column, errors='coerce') on one value
to_datetime(v) ==
  IF v.k = "ts" THEN v
  ELSE IF v.k = "str" THEN ParseDate(v.s)
  ELSE NaT

\* read_excel followed by the to_datetime of both date columns (lines 72-88)
LoadFrame(rows) ==
  [i \in DOMAIN rows |->
     [StartDate |-> to_datetime(ReadExcelCell(rows[i].StartDate)),
      EndDate |-> to_datetime(ReadExcelCell(rows[i].EndDate)),
      FuelType |-> ReadExcelCell(rows[i].FuelType), RoadType |-> ReadExcelCell(rows[i].RoadType),
      Unit |-> ReadExcelCell(rows[i].Unit), Rate |-> ReadExcelCell(rows[i].Rate),
      Fuel |-> ReadExcelCell(rows[i].Fuel), Road |-> ReadExcelCell(rows[i].Road)]]

----------------------------------------------------------------------------
(* update_rates_table *)

\* RowTuple keyed on the columns other than Rate (a partial key)
RowTuple_no_rate(r) == <<r.StartDate, r.EndDate, r.FuelType, r.RoadType, r.Unit, r.Unit, r.Fuel, r.Road>>

\* row.apply(tuple): the eight columns in order
RowTuple(r) == <<r.StartDate, r.EndDate, r.FuelType, r.RoadType, r.Unit, r.Rate, r.Fuel, r.Road>>

\* pyobject_cmp as Python's ==, under which nan differs from nan
pyobject_cmp_eq(a, b) == a = b /\ a.k # "nan"

\* equality of two elements in the hash table behind isin: the same object
\* (NaT is one object), two NaN floats, or ==
pyobject_cmp(a, b) == IF a.k = "nan" /\ b.k = "nan" THEN TRUE ELSE a = b

tupleobject_cmp(x, y) == Len(x) = Len(y) /\ \A i \in DOMAIN x : pyobject_cmp(x[i], y[i])

\* Series.isin of one tuple in the tuples of df
IsIn(t, df) == \E j \in DOMAIN df : tupleobject_cmp(t, RowTuple(df[j]))

\* NewEntries without the isin filter: every staging row counts as new
NewEntries_all(update_df, ftc_df) == update_df

\* update_df[~update_df.apply(tuple, axis=1).isin(ftc_df.apply(tuple, axis=1))]
NewEntries(update_df, ftc_df) ==
  SelectSeq(update_df, LAMBDA r : ~IsIn(RowTuple(r), ftc_df))

\* Combine with its operands swapped: the new entries come first
Combine_new_first(ftc_df, new_entries) == new_entries \o ftc_df

\* pd.concat([ftc_df, new_entries], ignore_index=True)
Combine(ftc_df, new_entries) == ftc_df \o new_entries

File(rows) == [exists |-> TRUE, rows |-> rows]

NoFile == [exists |-> FALSE, rows |-> << >>]

NotFoundUpdate == "update.xlsx not found."

NotFoundFtc == "FTC Rates.xlsx not found."

NoUpdates == "No updates at the moment"

Appended == "New entries appended to FTC Rates.xlsx"

\* WriteIfNew without the test of line 93: the sheet is always rewritten
WriteIfNew_always(ftc, ftc_df, new_entries) ==
  [file |-> File(ToExcel(Combine(ftc_df, new_entries))), wrote |-> TRUE, printed |-> Appended]

\* lines 93-100: the sheet is replaced only when new_entries is not empty
WriteIfNew(ftc, ftc_df, new_entries) ==
  IF new_entries = << >>
  THEN [file |-> ftc, wrote |-> FALSE, printed |-> NoUpdates]
  ELSE [file |-> File(ToExcel(Combine(ftc_df, new_entries))), wrote |-> TRUE, printed |-> Appended]

Reconciled(update_df, ftc_df, new_entries, w) ==
  [printed |-> w.printed, ftc |-> w.file, wrote |-> w.wrote,
   update_df |-> update_df, ftc_df |-> ftc_df, new_entries |-> new_entries]

\* lines 93-100 on the two frames
Reconcile(ftc, update_df, ftc_df, new_entries) ==
  Reconciled(update_df, ftc_df, new_entries, WriteIfNew(ftc, ftc_df, new_entries))

\* lines 90-100 on the two frames
Compare(ftc, update_df, ftc_df) == Reconcile(ftc, update_df, ftc_df, NewEntries(update_df, ftc_df))

\* the whole function on the two workbooks: what it prints, the historical
\* workbook afterwards, and the frames it computed
update_rates_table(upd, ftc) ==
  IF ~upd.exists
  THEN [printed |-> NotFoundUpdate, ftc |-> ftc, wrote |-> FALSE,
        update_df |-> << >>, ftc_df |-> << >>, new_entries |-> << >>]
  ELSE IF ~ftc.exists
  THEN [printed |-> NotFoundFtc, ftc |-> ftc, wrote |-> FALSE,
        update_df |-> << >>, ftc_df |-> << >>, new_entries |-> << >>]
  ELSE Compare(ftc, LoadFrame(upd.rows), LoadFrame(ftc.rows))

----------------------------------------------------------------------------
(* main: normalisation, lines 129-165 *)

\* a column of the DataFrame: a key some rows lack reads as NaN there
Column(df, f) == [i \in DOMAIN df |-> IF df[i][f].k = "absent" THEN NaN ELSE df[i][f]]

\* the DataFrame has the column when some row holds the key
HasColumn(df, f) == \E i \in DOMAIN df : df[i][f].k # "absent"

\* the first exception in a sequence of results, or NoneV
FirstRaise(vals) ==
  IF \E i \in DOMAIN vals : IsRaise(vals[i])
  THEN vals[CHOOSE i \in DOMAIN vals : IsRaise(vals[i]) /\ \A j \in 1..(i - 1) : ~IsRaise(vals[j])]
  ELSE NoneV

Applied(vals) == [error |-> FirstRaise(vals), vals |-> vals]

\* df[column].apply(clean_rate), lines 141 and 145
ApplyCleanRate(df, f) ==
  IF ~HasColumn(df, f) THEN [error |-> Raise("KeyError"), vals |-> << >>]
  ELSE Applied([i \in DOMAIN df |-> clean_rate(Column(df, f)[i])])

\* pd.concat([df_r1, df_r2]): every row once as R1/On-Road, then every row
\* once as R2/Off-Road (lines 136-147)
Variants(df, r1, r2) ==
  [k \in 1..(2 * Len(df)) |->
     IF k <= Len(df)
     THEN [Title |-> df[k].Title, fuel |-> Column(df, "fuel")[k],
           RoadType |-> Str(<<"R","1">>), Road |-> Str(<<"O","n","-","R","o","a","d">>), Rate |-> r1[k]]
     ELSE [Title |-> df[k - Len(df)].Title, fuel |-> Column(df, "fuel")[k - Len(df)],
           RoadType |-> Str(<<"R","2">>), Road |-> Str(<<"O","f","f","-","R","o","a","d">>), Rate |-> r2[k - Len(df)]]]

\* lines 149-154: the eight columns
FinalFrame(result_df, dates) ==
  [k \in DOMAIN result_df |->
     [StartDate |-> dates[k][1], EndDate |-> dates[k][2],
      FuelType |-> MapFuelType(result_df[k].fuel),
      RoadType |-> result_df[k].RoadType,
      Unit |-> Str(<<"c","e","n","t","s"," ","p","e","r"," ","l","i","t","e","r">>),
      Rate |-> result_df[k].Rate,
      Fuel |-> result_df[k].fuel,
      Road |-> result_df[k].Road]]

\* lines 148-154, given what extract_dates gave for every row
WithDates(df, result_df, dates) ==
  IF IsRaise(FirstRaise([k \in DOMAIN dates |-> dates[k][1]]))
  THEN [error |-> FirstRaise([k \in DOMAIN dates |-> dates[k][1]]), final_df |-> << >>]
  ELSE IF ~HasColumn(df, "fuel") THEN [error |-> Raise("KeyError"), final_df |-> << >>]
  ELSE [error |-> NoneV, final_df |-> FinalFrame(result_df, dates)]

\* lines 147-148
ApplyExtractDates(df, result_df) ==
  WithDates(df, result_df, [k \in DOMAIN result_df |-> extract_dates(result_df[k].Title)])

\* lines 136-154, given the two cleaned rate columns
WithRates(df, r1, r2) ==
  IF IsRaise(r1.error) THEN [error |-> r1.error, final_df |-> << >>]
  ELSE IF IsRaise(r2.error) THEN [error |-> r2.error, final_df |-> << >>]
  ELSE ApplyExtractDates(df, Variants(df, r1.vals, r2.vals))

\* lines 136-154: final_df, or the exception that ends main
Normalise(df) == WithRates(df, ApplyCleanRate(df, "heavy"), ApplyCleanRate(df, "other"))

DataFrameIsNone == "DataFrame is None, rerunning the script..."

DataFrameIsEmpty == "DataFrame is empty, not exporting."

\* a run that stops before line 156
Stopped(outcome, raised, upd, ftc, fr) ==
  [outcome |-> outcome, raised |-> raised, built |-> FALSE, final_df |-> << >>,
   update_xlsx |-> upd, ftc_xlsx |-> ftc, fuel_rates_xlsx |-> fr,
   new_entries |-> << >>, wrote |-> FALSE]

\* lines 159-163, given what update_rates_table did
Exported(df, final_df, staged, urt) ==
  [outcome |-> urt.printed, raised |-> FALSE, built |-> TRUE, final_df |-> final_df,
   update_xlsx |-> staged, ftc_xlsx |-> urt.ftc, fuel_rates_xlsx |-> File(df.rows),
   new_entries |-> urt.new_entries, wrote |-> urt.wrote]

\* lines 156-165: update.xlsx is written, then the frame is exported and reconciled
Export(df, final_df, staged, ftc, fr) ==
  IF df.rows = << >>
  THEN [outcome |-> DataFrameIsEmpty, raised |-> FALSE, built |-> TRUE, final_df |-> final_df,
        update_xlsx |-> staged, ftc_xlsx |-> ftc, fuel_rates_xlsx |-> fr,
        new_entries |-> << >>, wrote |-> FALSE]
  ELSE Exported(df, final_df, staged, update_rates_table(staged, ftc))

\* lines 136-165
Transform(df, norm, upd, ftc, fr) ==
  IF IsRaise(norm.error) THEN Stopped(norm.error.s[1], TRUE, upd, ftc, fr)
  ELSE Export(df, norm.final_df, File(ToExcel(norm.final_df)), ftc, fr)

\* lines 132-165
MainFrom(df, upd, ftc, fr) ==
  IF df.isNone THEN Stopped(DataFrameIsNone, FALSE, upd, ftc, fr)
  ELSE Transform(df, Normalise(df.rows), upd, ftc, fr)

\* main from the scraped result on (lines 129-165): the three workbooks
\* afterwards and what the run did
MainRun(result, upd, ftc, fr) == MainFrom(json_to_dataframe(result), upd, ftc, fr)
----------------------------------------------------------------------------
(* Inputs: scraped documents *)

Entry(heavy, other, fuel) == [heavy |-> heavy, other |-> other, fuel |-> fuel]

Period(title, data) == [Period |-> title, hasData |-> TRUE, Data |-> data]

PeriodNoData(title) == [Period |-> title, hasData |-> FALSE, Data |-> << >>]

Doc(periods) == [hasKey |-> TRUE, periods |-> periods]

DocNoKey(periods) == [hasKey |-> FALSE, periods |-> periods]

TitleDated == Str(<<"1"," ","J","u","l","y"," ","2","0","2","3"," ","t","o"," ","3","0"," ","J","u","n","e"," ","2","0","2","4">>)

TitleNoDate == Str(<<"n","o"," ","d","a","t","e"," ","h","e","r","e">>)

TitleEmbedded == Str(<<"F","r","o","m"," ","1"," ","J","u","l","y"," ","2","0","2","3"," ","t","o"," ","3","0"," ","J","u","n","e"," ","2","0","2","4">>)

TitleNoMonth == Str(<<"1"," ","F","o","o"," ","2","0","2","3"," ","t","o"," ","3","0"," ","J","u","n","e"," ","2","0","2","4">>)

TitleNoSuchDay == Str(<<"3","1"," ","J","u","n","e"," ","2","0","2","3"," ","t","o"," ","3","0"," ","J","u","n","e"," ","2","0","2","4">>)

EntryA == Entry(Str(<<"1","5",".","5"," ","c","e","n","t","s","/","L">>), Str(<<"2","0"," ","c","e","n","t","s","/","L">>), Str(<<"B","1","0","0">>))

\* EntryA with another heavy-vehicle rate
EntryB == Entry(Str(<<"1","6",".","5"," ","c","e","n","t","s","/","L">>), Str(<<"2","0"," ","c","e","n","t","s","/","L">>), Str(<<"B","1","0","0">>))

\* a fuel description that is no key of fuel_type_mapping
EntryUnknownFuel == Entry(Str(<<"1","5",".","5"," ","c","e","n","t","s","/","L">>), Str(<<"2","0"," ","c","e","n","t","s","/","L">>), Str(<<"u","n","k","n","o","w","n"," ","f","u","e","l">>))

EntryBadRate == Entry(Str(<<"a","b","c">>), Str(<<"2","0"," ","c","e","n","t","s","/","L">>), Str(<<"B","1","0","0">>))

EntryNoRate == Entry(Absent, Str(<<"2","0"," ","c","e","n","t","s","/","L">>), Str(<<"B","1","0","0">>))

\* documents that main normalises and reconciles
GoodDocs ==
  { Doc(<<Period(TitleDated, <<EntryA>>)>>),
    Doc(<<Period(TitleDated, <<EntryB>>)>>),
    Doc(<<Period(TitleNoDate, <<EntryUnknownFuel>>)>>),
    Doc(<<Period(TitleDated, <<EntryA, EntryA, EntryB>>)>>),
    Doc(<<Period(TitleEmbedded, <<EntryA>>)>>),
    Doc(<<Period(TitleDated, <<EntryA>>), Period(TitleNoDate, <<EntryUnknownFuel>>)>>) }

\* documents that fail the gate of json_to_dataframe
GateDocs ==
  { DocNoKey(<<Period(TitleDated, <<EntryA>>)>>),
    Doc(<<Period(TitleDated, <<EntryB>>), PeriodNoData(TitleNoDate)>>),
    Doc(<<Period(Absent, <<EntryA>>)>>) }

\* documents that pass the gate and on which a later step raises
RaisingDocs ==
  { Doc(<< >>),
    Doc(<<Period(TitleDated, << >>)>>),
    Doc(<<Period(TitleDated, <<EntryB, EntryBadRate>>)>>),
    Doc(<<Period(TitleDated, <<EntryB, EntryNoRate>>)>>),
    Doc(<<Period(TitleNoMonth, <<EntryA>>)>>),
    Doc(<<Period(TitleNoSuchDay, <<EntryA>>)>>) }

Docs == GoodDocs \cup GateDocs \cup RaisingDocs

NoDoc == DocNoKey(<< >>)

\* the historical sheet before the first run: absent, empty, or holding
\* rows of earlier runs (dates as date cells, or as the text of a staging
\* workbook that was copied in)
HistRowA ==
  [StartDate |-> Timestamp(2023, 7, 1), EndDate |-> Timestamp(2024, 6, 30),
   FuelType |-> Str(<<"F","T","6">>), RoadType |-> Str(<<"R","1">>), Unit |-> Str(<<"c","e","n","t","s"," ","p","e","r"," ","l","i","t","e","r">>),
   Rate |-> Float(155, 1), Fuel |-> Str(<<"B","1","0","0">>), Road |-> Str(<<"O","n","-","R","o","a","d">>)]

HistRowText ==
  [HistRowA EXCEPT !.StartDate = Str(<<"0","7","/","0","1","/","2","0","2","3">>), !.EndDate = Str(<<"0","6","/","3","0","/","2","0","2","4">>),
                   !.RoadType = Str(<<"R","2">>), !.Road = Str(<<"O","f","f","-","R","o","a","d">>), !.Rate = Float(20, 0)]

HistRowNull ==
  [HistRowA EXCEPT !.StartDate = Blank, !.EndDate = Blank, !.FuelType = Blank,
                   !.Fuel = Str(<<"u","n","k","n","o","w","n"," ","f","u","e","l">>)]

InitialHistories ==
  { NoFile, File(<< >>), File(<<HistRowA>>), File(<<HistRowText>>), File(<<HistRowNull, HistRowA>>) }

----------------------------------------------------------------------------
(* The sequential pipeline: runs of main and of update_rates_table *)

Procs == {1, 2}

IdleProc == [pc |-> "idle", staged |-> << >>, update_df |-> << >>, ftc_df |-> << >>,
             new_entries |-> << >>]

NoRun ==
  [op |-> "none", doc |-> NoDoc, outcome |-> "", raised |-> FALSE, built |-> FALSE,
   final_df |-> << >>, new_entries |-> << >>, wrote |-> FALSE,
   update_before |-> NoFile, ftc_before |-> NoFile]

Init ==
  /\ update_xlsx = NoFile
  /\ ftc_xlsx \in InitialHistories
  /\ fuel_rates_xlsx = NoFile
  /\ last = NoRun
  /\ proc = [p \in Procs |-> IdleProc]
  /\ overlap = FALSE
  /\ ftc_initial = ftc_xlsx

\* one run of main on the scraped document result
Main(result) ==
  \E run \in {MainRun(result, update_xlsx, ftc_xlsx, fuel_rates_xlsx)} :
     /\ update_xlsx' = run.update_xlsx
     /\ ftc_xlsx' = run.ftc_xlsx
     /\ fuel_rates_xlsx' = run.fuel_rates_xlsx
     /\ last' = [op |-> "main", doc |-> result, outcome |-> run.outcome, raised |-> run.raised,
                 built |-> run.built, final_df |-> run.final_df,
                 new_entries |-> run.new_entries, wrote |-> run.wrote,
                 update_before |-> update_xlsx, ftc_before |-> ftc_xlsx]
     /\ UNCHANGED <<proc, overlap, ftc_initial>>

\* one call of update_rates_table on the workbooks as they are
UpdateRatesTable ==
  \E urt \in {update_rates_table(update_xlsx, ftc_xlsx)} :
     /\ ftc_xlsx' = urt.ftc
     /\ last' = [op |-> "update_rates_table", doc |-> NoDoc, outcome |-> urt.printed,
                 raised |-> FALSE, built |-> FALSE, final_df |-> << >>,
                 new_entries |-> urt.new_entries, wrote |-> urt.wrote,
                 update_before |-> update_xlsx, ftc_before |-> ftc_xlsx]
     /\ UNCHANGED <<update_xlsx, fuel_rates_xlsx, proc, overlap, ftc_initial>>

RunMain == \E result \in Docs : Main(result)

Next == RunMain \/ UpdateRatesTable

Spec == Init /\ [][Next]_vars

----------------------------------------------------------------------------
(* Two runs of main on the same workbooks.  A run takes one step per      *)
(* workbook access: it writes update.xlsx and fuel_rates.xlsx (lines      *)
(* 156-161), reads update.xlsx (72), reads FTC Rates.xlsx (79) and        *)
(* replaces the sheet (91-100).                                            *)

\* lines 129-161 for a document that normalises: the staging workbook is written
Stage(p, result) ==
  /\ proc[p].pc = "idle"
  /\ \E norm \in {Normalise(json_to_dataframe(result).rows)} :
       /\ update_xlsx' = File(ToExcel(norm.final_df))
       /\ fuel_rates_xlsx' = File(json_to_dataframe(result).rows)
       /\ proc' = [proc EXCEPT ![p] = [@ EXCEPT !.pc = "staged", !.staged = ToExcel(norm.final_df)]]
  /\ overlap' = (overlap \/ \E q \in Procs \ {p} : proc[q].pc \notin {"idle", "done"})
  /\ UNCHANGED <<ftc_xlsx, last, ftc_initial>>

\* lines 71-75, 85-86
ReadUpdate(p) ==
  /\ proc[p].pc = "staged"
  /\ proc' = [proc EXCEPT ![p] =
                IF update_xlsx.exists
                THEN [@ EXCEPT !.pc = "read_update", !.update_df = LoadFrame(update_xlsx.rows)]
                ELSE [@ EXCEPT !.pc = "done"]]
  /\ UNCHANGED <<update_xlsx, ftc_xlsx, fuel_rates_xlsx, last, overlap, ftc_initial>>

\* lines 78-82, 87-88
ReadFtc(p) ==
  /\ proc[p].pc = "read_update"
  /\ proc' = [proc EXCEPT ![p] =
                IF ftc_xlsx.exists
                THEN [@ EXCEPT !.pc = "read_ftc", !.ftc_df = LoadFrame(ftc_xlsx.rows)]
                ELSE [@ EXCEPT !.pc = "done"]]
  /\ UNCHANGED <<update_xlsx, ftc_xlsx, fuel_rates_xlsx, last, overlap, ftc_initial>>

\* lines 90-100
WriteFtc(p) ==
  /\ proc[p].pc = "read_ftc"
  /\ \E new_entries \in {NewEntries(proc[p].update_df, proc[p].ftc_df)} :
       /\ ftc_xlsx' = WriteIfNew(ftc_xlsx, proc[p].ftc_df, new_entries).file
       /\ proc' = [proc EXCEPT ![p] = [@ EXCEPT !.pc = "done", !.new_entries = new_entries]]
  /\ UNCHANGED <<update_xlsx, fuel_rates_xlsx, last, overlap, ftc_initial>>

StageSome == \E p \in Procs : \E result \in GoodDocs : Stage(p, result)

ReadUpdateSome == \E p \in Procs : ReadUpdate(p)

ReadFtcSome == \E p \in Procs : ReadFtc(p)

WriteFtcSome == \E p \in Procs : WriteFtc(p)

NextConc == StageSome \/ ReadUpdateSome \/ ReadFtcSome \/ WriteFtcSome

SpecConc == Init /\ [][NextConc]_vars

----------------------------------------------------------------------------
(* Vocabulary of the properties *)

\* a workbook as the table update_rates_table compares: dates as calendar dates
Rows(file) == LoadFrame(file.rows)

\* equality in all eight fields
SameRow(a, b) ==
  /\ a.StartDate = b.StartDate /\ a.EndDate = b.EndDate
  /\ a.FuelType = b.FuelType /\ a.RoadType = b.RoadType
  /\ a.Unit = b.Unit /\ a.Rate = b.Rate
  /\ a.Fuel = b.Fuel /\ a.Road = b.Road

InTable(r, t) == \E j \in DOMAIN t : SameRow(r, t[j])

Count(r, t) == Cardinality({j \in DOMAIN t : SameRow(r, t[j])})

DupFree(t) == \A i, j \in DOMAIN t : i # j => ~SameRow(t[i], t[j])

\* the rows of staging that no historical row equals, in staging order
SetDifference(staging, hist) == SelectSeq(staging, LAMBDA r : ~InTable(r, hist))

\* the run recorded in l loaded both workbooks and compared them
RanReconcile(l) ==
  \/ l.op = "update_rates_table" /\ l.update_before.exists /\ l.ftc_before.exists
  \/ l.op = "main" /\ l.built /\ l.final_df # << >> /\ l.ftc_before.exists

\* the schema gate: the top-level key, and Period and Data in every period
SchemaOK(doc) ==
  /\ doc.hasKey
  /\ \A i \in DOMAIN doc.periods : doc.periods[i].Period.k # "absent" /\ doc.periods[i].hasData

RECURSIVE AllEntries(_)
AllEntries(periods) ==
  IF periods = << >> THEN << >> ELSE periods[1].Data \o AllEntries(Tail(periods))

RateOK(v) == ~IsRaise(clean_rate(v))

EntryOK(e) == RateOK(e.heavy) /\ RateOK(e.other)

\* a document of the shape the data model asks for
ValidDoc(doc) ==
  /\ SchemaOK(doc)
  /\ \A i \in DOMAIN AllEntries(doc.periods) :
       LET e == AllEntries(doc.periods)[i]
       IN e.heavy.k = "str" /\ e.other.k = "str" /\ e.fuel.k = "str" /\ EntryOK(e)

\* str.split(' ')
RECURSIVE Tokens(_)
Tokens(s) ==
  LET tok == FirstToken(s)
  IN IF Len(tok) = Len(s) THEN <<s>> ELSE <<tok>> \o Tokens(SubSeq(s, Len(tok) + 2, Len(s)))

IsDay(tok) == Len(tok) \in {1, 2} /\ AllDigits(tok)

IsYear(tok) == Len(tok) = 4 /\ AllDigits(tok)

IsMonthName(tok) == \E i \in DOMAIN MonthNames : MonthNames[i] = LowerStr(tok)

\* the title holds "<day> <English month name> <year> to <day> <English month name> <year>"
IsDateForm(title) ==
  /\ title.k = "str"
  /\ LET toks == Tokens(title.s)
     IN \E i \in 1..(Len(toks) - 6) :
          /\ IsDay(toks[i]) /\ IsMonthName(toks[i + 1]) /\ IsYear(toks[i + 2])
          /\ toks[i + 3] = <<"t","o">>
          /\ IsDay(toks[i + 4]) /\ IsMonthName(toks[i + 5]) /\ IsYear(toks[i + 6])

AllDone == \A p \in Procs : proc[p].pc = "done"

----------------------------------------------------------------------------
(* Properties *)

\* C1: whenever update_rates_table compares the two workbooks, its new
\* entries are exactly the staging rows that equal no historical row in all
\* eight fields: a staging row equal to a historical row is not among them,
\* however often staging holds it; a staging row that differs from every
\* historical row in some field (Rate alone is enough) is among them; and
\* every new entry is a staging row.
C1_NewRowsAreSetDifference ==
  RanReconcile(last) =>
    LET staging == Rows(update_xlsx)
        hist == Rows(last.ftc_before)
    IN /\ \A i \in DOMAIN staging :
            IF InTable(staging[i], hist)
            THEN ~InTable(staging[i], last.new_entries)
            ELSE InTable(staging[i], last.new_entries)
       /\ \A k \in DOMAIN last.new_entries : InTable(last.new_entries[k], staging)

\* C1 witness: a run where staging holds twice a row the historical sheet
\* already has (left out) and a row that differs from a historical row in
\* Rate only (kept).
C1_Witness ==
  /\ RanReconcile(last)
  /\ LET staging == Rows(update_xlsx)
         hist == Rows(last.ftc_before)
     IN /\ \E i \in DOMAIN staging :
             /\ Count(staging[i], staging) >= 2
             /\ InTable(staging[i], hist)
             /\ ~InTable(staging[i], last.new_entries)
        /\ \E i \in DOMAIN staging : \E j \in DOMAIN hist :
             /\ staging[i].Rate # hist[j].Rate
             /\ SameRow([staging[i] EXCEPT !.Rate = hist[j].Rate], hist[j])
             /\ InTable(staging[i], last.new_entries)

\* C2: the historical sheet is append-only: every step leaves in it the rows
\* it held, unchanged and in their order, followed (when the step is a run
\* that compared the workbooks) by the staging rows that were not in it, in
\* staging order; a workbook that exists is never removed.
C2_HistoricalIsAppendOnly ==
  [][/\ ftc_xlsx'.exists = ftc_xlsx.exists
     /\ Rows(ftc_xlsx') =
          Rows(ftc_xlsx) \o (IF RanReconcile(last')
                             THEN SetDifference(Rows(update_xlsx'), Rows(ftc_xlsx))
                             ELSE << >>)]_vars

\* C2 witness: a run appended two or more rows to a sheet that held rows.
C2_Witness ==
  /\ RanReconcile(last)
  /\ last.wrote
  /\ last.ftc_before.rows # << >>
  /\ Len(last.new_entries) >= 2
  /\ Len(ftc_xlsx.rows) = Len(last.ftc_before.rows) + Len(last.new_entries)

\* C3: when every staging row already appears in the historical sheet, the
\* run does not write the historical workbook, which stays as it was, and
\* it reports "No updates at the moment", not the append message.
C3_NoNewRowsNoWrite ==
  (/\ RanReconcile(last)
   /\ \A i \in DOMAIN Rows(update_xlsx) : InTable(Rows(update_xlsx)[i], Rows(last.ftc_before)))
  => (/\ ~last.wrote
      /\ ftc_xlsx = last.ftc_before
      /\ last.outcome = NoUpdates
      /\ last.outcome # Appended)

\* C3 witness: a run whose staging rows, at least two, were all in the
\* historical sheet.
C3_Witness ==
  /\ RanReconcile(last)
  /\ Len(update_xlsx.rows) >= 2
  /\ \A i \in DOMAIN Rows(update_xlsx) : InTable(Rows(update_xlsx)[i], Rows(last.ftc_before))
  /\ last.outcome = NoUpdates

\* C4: reconciliation is idempotent: a run that compares the same staging
\* workbook as the run before it, against the historical sheet that run left,
\* finds no new entries and leaves the historical workbook unchanged; rows
\* with null dates or a null fuel type code included.
C4_ReconcileIsIdempotent ==
  [][(RanReconcile(last) /\ RanReconcile(last') /\ update_xlsx' = update_xlsx)
       => (last'.new_entries = << >> /\ ftc_xlsx' = ftc_xlsx)]_vars

\* C4 witness: a run on the staging workbook of the run before it, holding a
\* row with null dates and a null fuel type code, that found nothing new.
C4_Witness ==
  /\ RanReconcile(last)
  /\ last.update_before = update_xlsx
  /\ \E i \in DOMAIN Rows(update_xlsx) :
       /\ Rows(update_xlsx)[i].StartDate = NaT
       /\ Rows(update_xlsx)[i].EndDate = NaT
       /\ Rows(update_xlsx)[i].FuelType = NaN
  /\ last.new_entries = << >>
  /\ ftc_xlsx = last.ftc_before

\* C5: starting from a historical sheet without two identical rows, the
\* sheet never holds two rows that are equal in all eight fields,
\* whatever the staging tables hold.
C5_NoDuplicateRows == DupFree(Rows(ftc_xlsx))

\* C6: when the document fails the schema gate (the top-level key is absent,
\* or a period lacks Period or Data), main builds no table, ends without an
\* exception, and leaves the staging and the historical workbook as they were.
C6_SchemaFailureTouchesNothing ==
  (last.op = "main" /\ ~SchemaOK(last.doc))
  => (/\ ~last.raised
      /\ ~last.built
      /\ last.final_df = << >>
      /\ last.outcome = DataFrameIsNone
      /\ update_xlsx = last.update_before
      /\ ftc_xlsx = last.ftc_before)

\* C6 witness: a document with the key, a first period that is complete and
\* a later one that is not, met when both workbooks existed.
C6_Witness ==
  /\ last.op = "main"
  /\ last.doc.hasKey
  /\ ~SchemaOK(last.doc)
  /\ Len(last.doc.periods) >= 2
  /\ last.update_before.exists
  /\ last.ftc_before.exists
  /\ last.outcome = DataFrameIsNone

\* C7: a missing or non-numeric rate fails only its own row: in a run on a
\* document that passes the gate and has such a row beside rows with numeric
\* rates, main does not raise, the rows with numeric rates (two canonical rows
\* each) are written to the staging workbook and are reconciled.
C7_BadRateFailsOnlyItsRow ==
  LET entries == AllEntries(last.doc.periods)
      good == {i \in DOMAIN entries : EntryOK(entries[i])}
  IN (/\ last.op = "main" /\ SchemaOK(last.doc)
      /\ good # {} /\ good # DOMAIN entries)
     => (/\ ~last.raised
         /\ last.built
         /\ Len(last.final_df) >= 2 * Cardinality(good)
         /\ update_xlsx = File(ToExcel(last.final_df))
         /\ (last.ftc_before.exists => last.outcome \in {NoUpdates, Appended}))

\* C8: date extraction never aborts the run: in a run on a document that
\* passes the gate and whose rates are all numeric, main does not raise and
\* builds its table, and for every title extract_dates gives (None, None)
\* when the title is not of the date form and two dates when it is.
C8_DateExtractionIsSoft ==
  LET entries == AllEntries(last.doc.periods)
  IN (/\ last.op = "main" /\ SchemaOK(last.doc)
      /\ entries # << >> /\ \A i \in DOMAIN entries : EntryOK(entries[i]))
     => (/\ ~last.raised
         /\ last.built
         /\ \A i \in DOMAIN last.doc.periods :
              LET title == last.doc.periods[i].Period
                  dates == extract_dates(title)
              IN IF IsDateForm(title)
                 THEN dates[1].k = "str" /\ dates[2].k = "str"
                 ELSE dates = <<NoneV, NoneV>>)

\* C9: for every valid document main builds the canonical table, and it has
\* two rows per Data entry: entry i gives row i, R1/On-Road with the rate of
\* "Used in heavy vehicles", and row n+i, R2/Off-Road with the rate of "All
\* other business uses".
C9_TwoRowsPerEntry ==
  LET entries == AllEntries(last.doc.periods)
      n == Len(entries)
  IN (last.op = "main" /\ ValidDoc(last.doc))
     => (/\ last.built
         /\ Len(last.final_df) = 2 * n
         /\ \A i \in 1..n :
              /\ last.final_df[i].RoadType = Str(<<"R","1">>)
              /\ last.final_df[i].Road = Str(<<"O","n","-","R","o","a","d">>)
              /\ last.final_df[i].Rate = clean_rate(entries[i].heavy)
              /\ last.final_df[n + i].RoadType = Str(<<"R","2">>)
              /\ last.final_df[n + i].Road = Str(<<"O","f","f","-","R","o","a","d">>)
              /\ last.final_df[n + i].Rate = clean_rate(entries[i].other))

\* C10: two runs that do not overlap, each with a staging table without
\* duplicate rows, on a historical workbook that exists, leave every new row
\* of both runs (a staging row that was not in the sheet before) in the
\* sheet exactly once.  Runs that overlap can lose a row: C10_Witness.
C10_SerializedRunsKeepNewRowsOnce ==
  (/\ AllDone /\ ~overlap /\ ftc_initial.exists
   /\ \A p \in Procs : DupFree(LoadFrame(proc[p].staged)))
  => \A p \in Procs : \A i \in DOMAIN proc[p].staged :
       LET r == LoadFrame(proc[p].staged)[i]
       IN ~InTable(r, Rows(ftc_initial)) => Count(r, Rows(ftc_xlsx)) = 1

\* C10 witness: both runs are over, they overlapped, and a row that one of
\* them appended to the historical sheet is no longer in it.
C10_Witness ==
  /\ AllDone
  /\ overlap
  /\ \E p \in Procs : \E i \in DOMAIN proc[p].new_entries :
       ~InTable(proc[p].new_entries[i], Rows(ftc_xlsx))

====
